---- MODULE Spec2Model ----
(***************************************************************************)
(* A model of the spacecraft geometry code of formulahunter/orbit:         *)
(* Cylinder (vertex, colour and index buffers of one capped cylinder) and  *)
(* Spacecraft (the ordered component list and the merged buffers).         *)
(*                                                                         *)
(* Numbers.  Coordinates are fixed-point integers.  The unit template is   *)
(* held in thousandths (cos/sin of multiples of 30 degrees rounded to      *)
(* 1/1000); a cylinder's dimensions dz, r0, r1 are integers counted in     *)
(* quarters, so that Cylinder(1, 1, 0.25) is written Cylinder(4, 4, 1).    *)
(* A scaled coordinate is the integer product and is read in units of      *)
(* 1/4000; component offsets (pos) are given in the same unit.  The        *)
(* rounding of Float32Array is not modelled.  Indices are 0-based as in    *)
(* the source; sequences are 1-based, so element i of a source array is    *)
(* element i+1 of the sequence that models it.                             *)
(***************************************************************************)
EXTENDS Integers, Sequences, FiniteSets, TLC

VARIABLES
    unitVerts,      \* Cylinder.unitVerts, the static unit template
    cyls,           \* the Cylinder objects constructed so far, by identity (1..Len)
    components,     \* Spacecraft._components: component identities in list order
    posSets,        \* number of pos assignments made after construction
    ret,            \* the last call: its name, arguments, and what it returned or threw
    mN,             \* merge loop: number of components of the spacecraft being merged
    mI,             \* merge loop: the loop variable i of Spacecraft.elements (line 168)
    mVertCount,     \* merge loop: elements.vertCount
    mIndCount,      \* merge loop: elements.indCount
    mBlock,         \* merge loop: the index values written by the last iteration
    ang,            \* an Angle object: _rad and _deg, each <<>> (null) or <<value>>
    vec,            \* a Vector object: _x, _y, _z, _theta, _phi, _r, each <<>> or <<value>>
    ell,            \* an Ellipse object: _a, _b and the caches _sMaj, _sMin, _c, _e
    assigns,        \* number of setter calls made on the object since construction
    planetM,        \* sim: M of every planet of the planets index
    crafts,         \* sim: the master crafts list, craft identities in list order
    craftM,         \* sim: orbit.M of every craft
    activeCraft,    \* sim: activeCraft, <<>> (undefined) or <<craft>>
    gameTime,       \* sim: gameTime
    lastRun         \* sim: lastRun

\* the variables of the objects outside the spacecraft geometry
kinVars == <<ang, vec, ell, assigns, planetM, crafts, craftM, activeCraft, gameTime, lastRun>>

vars == <<unitVerts, cyls, components, posSets, ret, mN, mI, mVertCount, mIndCount, mBlock,
          kinVars>>

\* the variables of the spacecraft geometry other than ret
geomVars == <<unitVerts, cyls, components, posSets, mN, mI, mVertCount, mIndCount, mBlock>>

\* no Angle, Vector or Ellipse has been made and the simulator module is not loaded
AngleIdle == ang = [rad |-> <<>>, deg |-> <<>>]
VectorIdle ==
    vec = [x |-> <<>>, y |-> <<>>, z |-> <<>>, theta |-> <<>>, phi |-> <<>>, r |-> <<>>]
EllipseIdle ==
    ell = [a |-> 0, b |-> 0, sMaj |-> <<>>, sMin |-> <<>>, c |-> <<>>, e |-> <<>>]
SimIdle ==
    /\ planetM = <<>>
    /\ crafts = <<>>
    /\ craftM = <<>>
    /\ activeCraft = <<>>
    /\ gameTime = 0
    /\ lastRun = 0
KinIdle ==
    /\ AngleIdle
    /\ VectorIdle
    /\ EllipseIdle
    /\ SimIdle
    /\ assigns = 0

(***************************************************************************)
(* Bounds of the model.                                                    *)
(***************************************************************************)
\* Cylinder objects that may exist at once (the constructor makes three).
MaxCylinders == 4
\* pos assignments made by callers after the Spacecraft constructor.
MaxPosSets == 1
\* Components of the largest spacecraft whose merge loop is followed.
MaxMergeComponents == 890

(***************************************************************************)
(* Program constants.                                                      *)
(***************************************************************************)
\* Cylinder.edgeCount
edgeCount == 12
\* 1.0 in the thousandths of the unit template
One == 1000
\* number of values of an unsigned 16-bit array element (Uint16Array)
Uint16Range == 65536

\* Math.cos(ind * TWO_PI / edgeCount), ind = 0..11, in thousandths
CosTable == <<1000, 866, 500, 0, -500, -866, -1000, -866, -500, 0, 500, 866>>
\* Math.sin(ind * TWO_PI / edgeCount), ind = 0..11, in thousandths
SinTable == <<0, 500, 866, 1000, 866, 500, 0, -500, -866, -1000, -866, -500>>
\* Math.sin(j * PI / 39), j = 0..39, in thousandths
SinPi39 ==
    <<0, 80, 160, 239, 317, 392, 465, 534, 601, 663, 721, 775, 823, 866, 903,
      935, 961, 980, 993, 999, 999, 993, 980, 961, 935, 903, 866, 823, 775,
      721, 663, 601, 534, 465, 392, 317, 239, 160, 80, 0>>

(***************************************************************************)
(* Vector: a Cartesian triple <<x, y, z>>.  Every vector of the geometry   *)
(* code is built by the Cartesian constructor, so x, y and z are cached.   *)
(***************************************************************************)
Vector(x, y, z) == <<x, y, z>>

\* Vector.valueOf(): [this.x, this.y, this.z]
valueOf(v) == <<v[1], v[2], v[3]>>

\* Vector.copy() and static Vector.copy(v): a new vector with the same components
copy(v) == Vector(valueOf(v)[1], valueOf(v)[2], valueOf(v)[3])

\* a scale by a number that leaves z as it was
scaleXYOnly(v, s) == Vector(v[1] * s, v[2] * s, v[3])

\* Vector.scale(s) with a number s
scale(v, s) == Vector(v[1] * s, v[2] * s, v[3] * s)

\* a scale by an array that uses its first factor for every component
scaleArrayUniform(v, s) == Vector(v[1] * s[1], v[2] * s[1], v[3] * s[1])

\* Vector.scale(s) with an array s = [sx, sy, sz]
scaleArray(v, s) == Vector(v[1] * s[1], v[2] * s[2], v[3] * s[3])

\* Vector.add(v)
add(v, w) == Vector(v[1] + w[1], v[2] + w[2], v[3] + w[3])

\* Array.prototype.flat() of an array whose items are arrays of one common length
Flat(s) ==
    IF s = <<>> THEN <<>>
    ELSE LET w == Len(s[1])
         IN  [k \in 1..(w * Len(s)) |-> s[((k - 1) \div w) + 1][((k - 1) % w) + 1]]

\* Uint16Array.from(a) and Uint16Array.prototype.map: every value is kept modulo 2^16
ToUint16(n) == n % Uint16Range

(***************************************************************************)
(* Cylinder                                                                *)
(***************************************************************************)
\* the static initialiser of Cylinder.unitVerts
UnitVertsInit ==
    [btm |-> [cntr  |-> Vector(0, 0, 0),
              prmtr |-> [ind \in 1..edgeCount |->
                            Vector(CosTable[ind], SinTable[ind], 0)]],
     top |-> [cntr  |-> Vector(0, 0, One),
              prmtr |-> [ind \in 1..edgeCount |->
                            Vector(CosTable[ind], SinTable[ind], One)]]]

\* getVectors that leaves the top centre out
getVectorsNoTopCentre(uv, dz, r0, r1) ==
    [ind \in 1..edgeCount |-> scale(uv.btm.prmtr[ind], r0)]
    \o <<copy(uv.btm.cntr)>>
    \o [ind \in 1..edgeCount |-> scaleArray(uv.top.prmtr[ind], <<r1, r1, dz>>)]

\* Cylinder.getVectors(dz, r0, r1): bottom perimeter, bottom centre, top
\* perimeter, top centre
getVectors(uv, dz, r0, r1) ==
    [ind \in 1..edgeCount |-> scale(uv.btm.prmtr[ind], r0)]
    \o <<copy(uv.btm.cntr)>>
    \o [ind \in 1..edgeCount |-> scaleArray(uv.top.prmtr[ind], <<r1, r1, dz>>)]
    \o <<scale(uv.top.cntr, dz)>>

\* new Cylinder(dz, r0, r1): the fields of the new object; _pos is new Vector
Cylinder(uv, dz, r0, r1) ==
    [dz |-> dz, r0 |-> r0, r1 |-> r1,
     verts |-> getVectors(uv, dz, r0, r1),
     pos |-> Vector(0, 0, 0)]

\* SpacecraftComponent.pos getter: a copy of _pos
pos(c) == copy(c.pos)

\* vectorArray that copies the stored vertices and leaves pos out
vectorArrayUntranslated(c) == [k \in 1..Len(c.verts) |-> copy(c.verts[k])]

\* Cylinder.vectorArray: every stored vertex translated by pos
vectorArray(c) == [k \in 1..Len(c.verts) |-> add(c.verts[k], pos(c))]

\* Math.sin(theta + k * PI / 3) with theta = (i / len) * PI, in thousandths
\* (len is btmVerts.length = edgeCount + 1 = 13, so the angle is a multiple of PI / 39)
SinTheta(i, len, k) ==
    LET j == (((39 * i) \div len) + (13 * k)) % 78
    IN  IF j <= 39 THEN SinPi39[j + 1] ELSE 0 - SinPi39[(j - 39) + 1]

\* one entry of colors (lines 513-517): [r, g, b, 1.0]
Color(i, len) == <<SinTheta(i, len, 0), SinTheta(i, len, 1), SinTheta(i, len, 2), One>>

\* index of the bottom centre in the vertex list (line 473)
bCntr == edgeCount
\* a top centre index that forgets the bottom centre between the perimeters
tCntrNoCentreGap == 2 * edgeCount
\* index of the top centre (line 474)
tCntr == (2 * edgeCount) + 1
\* a side offset one too far
sOffsetOneTooFar == tCntr + 2
\* index of the first side vertex (line 475)
sOffset == tCntr + 1

\* a next index that runs off the perimeter on the last edge
nextEdgeNoWrap(i) == i + 1
\* i1 of the vertex loop: the next index, wrapped to 0 on the last edge (line 481)
nextEdge(i) == (i + 1) % edgeCount

\* the bottom triangle of edge i (line 490)
btmTriangle(i, i1) == <<bCntr, i, i1>>
\* a top triangle wound as the bottom one is
topTriangleWoundAsBottom(i, i1) == <<tCntr, i + bCntr + 1, i1 + bCntr + 1>>
\* the top triangle of edge i (line 491)
topTriangle(i, i1) == <<tCntr, i1 + bCntr + 1, i + bCntr + 1>>

\* Cylinder.elements: the DataIndex of one cylinder
\* side triangles whose second triangle runs along the diagonal as the first does
sideTrianglesSameDirection(fourI) ==
    << <<fourI + sOffset, fourI + sOffset + 1, fourI + sOffset + 2>>,
       <<fourI + sOffset + 1, fourI + sOffset + 2, fourI + sOffset + 3>> >>
\* the two triangles pushed on sideInd for the face at fourI (lines 494-497)
sideTriangles(fourI) ==
    << <<fourI + sOffset, fourI + sOffset + 1, fourI + sOffset + 2>>,
       <<fourI + sOffset + 2, fourI + sOffset + 1, fourI + sOffset + 3>> >>

CylinderElements(c) ==
    LET vertices == vectorArray(c)
        half     == Len(vertices) \div 2
        \* vertices.splice(vertices.length / 2) takes the second half away
        topVerts == SubSeq(vertices, half + 1, Len(vertices))
        btmVerts == SubSeq(vertices, 1, half)
        sideVerts ==
            Flat([n \in 1..edgeCount |->
                    LET i == n - 1  i1 == nextEdge(n - 1)
                    IN  <<copy(btmVerts[i + 1]), copy(topVerts[i + 1]),
                          copy(btmVerts[i1 + 1]), copy(topVerts[i1 + 1])>>])
        btmInd == [n \in 1..edgeCount |-> btmTriangle(n - 1, nextEdge(n - 1))]
        topInd == [n \in 1..edgeCount |-> topTriangle(n - 1, nextEdge(n - 1))]
        sideInd ==
            Flat([n \in 1..edgeCount |-> sideTriangles((n - 1) * 4)])
        finalVerts == btmVerts \o topVerts \o sideVerts
        finalInds  == Flat(btmInd \o topInd \o sideInd)
        colors == [n \in 1..edgeCount |-> Color(n - 1, Len(btmVerts))]
        sideColors ==
            Flat([n \in 1..edgeCount |->
                    LET i1 == n % edgeCount  i2 == (n + 1) % edgeCount
                    IN  <<colors[n], colors[i1 + 1], colors[i1 + 1], colors[i2 + 1]>>])
        finalColors == colors \o colors \o sideColors
    IN  [vertCount |-> Len(finalVerts),
         indCount  |-> Len(finalInds),
         position  |-> Flat([k \in 1..Len(finalVerts) |-> valueOf(finalVerts[k])]),
         color     |-> Flat(finalColors),
         normal    |-> <<>>,
         index     |-> [k \in 1..Len(finalInds) |-> ToUint16(finalInds[k])]]

(***************************************************************************)
(* Spacecraft                                                              *)
(***************************************************************************)
\* a DataIndex with no data, held in ret by the calls that return none
NoData ==
    [vertCount |-> 0, indCount |-> 0, position |-> <<>>, color |-> <<>>,
     normal |-> <<>>, index |-> <<>>]

\* new Float32Array(n), new Uint16Array(n): n zeroes
ZeroArray(n) == [k \in 1..n |-> 0]

\* TypedArray.prototype.set(source, offset): source written over target from offset
\* on (the targets of Spacecraft.elements are sized so that every source fits)
TypedArraySet(target, source, offset) ==
    [k \in 1..Len(target) |->
        IF k > offset /\ k <= offset + Len(source) THEN source[k - offset] ELSE target[k]]

\* the index values of the component copied without an offset
RebasedIndexNoOffset(comp, vertCount) == comp.index

\* comp.index.map(ind => ind + elements.vertCount), a Uint16Array (line 176)
RebasedIndex(comp, vertCount) ==
    [k \in 1..Len(comp.index) |-> ToUint16(comp.index[k] + vertCount)]

\* an iteration that re-bases the index values by the index count so far
MergeComponentByIndCount(elements, comp) ==
    [vertCount |-> elements.vertCount + comp.vertCount,
     indCount  |-> elements.indCount + comp.indCount,
     position  |-> TypedArraySet(elements.position, comp.position, 3 * elements.vertCount),
     color     |-> TypedArraySet(elements.color, comp.color, 4 * elements.vertCount),
     normal    |-> TypedArraySet(elements.normal, comp.normal, 0),
     index     |-> TypedArraySet(elements.index, RebasedIndex(comp, elements.indCount),
                                 elements.indCount)]

\* one iteration of the second loop of Spacecraft.elements (lines 168-181)
MergeComponent(elements, comp) ==
    [vertCount |-> elements.vertCount + comp.vertCount,
     indCount  |-> elements.indCount + comp.indCount,
     position  |-> TypedArraySet(elements.position, comp.position, 3 * elements.vertCount),
     color     |-> TypedArraySet(elements.color, comp.color, 4 * elements.vertCount),
     normal    |-> TypedArraySet(elements.normal, comp.normal, 0),
     index     |-> TypedArraySet(elements.index, RebasedIndex(comp, elements.vertCount),
                                 elements.indCount)]

RECURSIVE MergeFrom(_, _, _)
\* the second loop of Spacecraft.elements from iteration i (1-based) on
MergeFrom(compElements, i, elements) ==
    IF i > Len(compElements) THEN elements
    ELSE MergeFrom(compElements, i + 1, MergeComponent(elements, compElements[i]))

RECURSIVE SumCounts(_, _)
\* counts.vertex / counts.index accumulated by the first loop (lines 153-157)
SumCounts(compElements, field) ==
    IF compElements = <<>> THEN 0
    ELSE compElements[1][field] + SumCounts(Tail(compElements), field)

\* Spacecraft.elements for the component list `list` over the objects `heap`
SpacecraftElements(list, heap) ==
    LET compElements == [i \in 1..Len(list) |-> CylinderElements(heap[list[i]])]
        vertex == SumCounts(compElements, "vertCount")
        index  == SumCounts(compElements, "indCount")
        empty  == [vertCount |-> 0,
                   indCount  |-> 0,
                   position  |-> ZeroArray(3 * vertex),
                   color     |-> ZeroArray(4 * vertex),
                   normal    |-> ZeroArray(0),
                   index     |-> ZeroArray(index)]
    IN  MergeFrom(compElements, 1, empty)

\* Array.prototype.indexOf: the first 0-based position of c, or -1
indexOf(list, c) ==
    IF \E k \in 1..Len(list) : list[k] = c
    THEN (CHOOSE k \in 1..Len(list) :
            list[k] = c /\ \A j \in 1..(k - 1) : list[j] # c) - 1
    ELSE -1

\* the 0-based position at which Array.prototype.splice(start, ...) starts
SpliceStart(list, start) ==
    IF start < 0
    THEN (IF Len(list) + start < 0 THEN 0 ELSE Len(list) + start)
    ELSE (IF start > Len(list) THEN Len(list) ELSE start)

\* the array left by Array.prototype.splice(start, 1)
SpliceRest(list, start) ==
    LET from == SpliceStart(list, start)
    IN  IF from >= Len(list) THEN list
        ELSE SubSeq(list, 1, from) \o SubSeq(list, from + 2, Len(list))

\* the array returned by Array.prototype.splice(start, 1): the removed items
SpliceRemoved(list, start) ==
    LET from == SpliceStart(list, start)
    IN  IF from >= Len(list) THEN <<>> ELSE <<list[from + 1]>>

\* a guard that lets negative indices through
IndexRejectedNoNegative(list, ind) == ind > Len(list)

\* the guard of getComponent (line 192) and of removeComponent (line 229)
IndexRejected(list, ind) == ind > Len(list) \/ ind < 0

\* addComponent that takes the last component out when it finds the component
addComponentRemovingLast(list, c) ==
    Append(IF indexOf(list, c) >= 0 THEN SubSeq(list, 1, Len(list) - 1) ELSE list, c)

\* addComponent that appends without looking for the component
addComponentNoRemove(list, c) == Append(list, c)

\* the list left by Spacecraft.addComponent(c) (lines 205-210)
addComponent(list, c) ==
    LET ind == indexOf(list, c)
    IN  Append(IF ind >= 0 THEN SpliceRest(list, ind) ELSE list, c)

\* Spacecraft.vectorArray (lines 136-144): the vectorArray of every component,
\* concatenated in list order
RECURSIVE SpacecraftVectorArray(_, _)
SpacecraftVectorArray(list, heap) ==
    IF list = <<>> THEN <<>>
    ELSE SpacecraftVectorArray(SubSeq(list, 1, Len(list) - 1), heap)
            \o vectorArray(heap[list[Len(list)]])

(***************************************************************************)
(* State machine of one Spacecraft and of the Cylinder objects around it.  *)
(***************************************************************************)
\* what ret holds: the call, its arguments, the error thrown ("" if none), the
\* value returned (<<>> is undefined), the DataIndex returned, the message of the
\* error thrown and the vectors returned
Ret(op, arg, threw, value, data) ==
    [op |-> op, arg |-> arg, threw |-> threw, value |-> value, data |-> data,
     message |-> <<>>, vectors |-> <<>>]

\* a RangeError message that leaves the index out
RangeErrorMessageNoIndex(ind) == <<>>

\* the message `invalid spacecraft component index ${ind}` of the RangeError of
\* getComponent and removeComponent: a fixed text and the index, held as the index
RangeErrorMessage(ind) == <<ind>>

\* throw new RangeError(`invalid spacecraft component index ${ind}`)
ThrowRangeError(op, arg, ind) ==
    [Ret(op, arg, "RangeError", <<>>, NoData) EXCEPT !.message = RangeErrorMessage(ind)]

\* the three cylinders built by the Spacecraft constructor (lines 85-94)
engine  == Cylinder(UnitVertsInit, 4, 4, 1)
booster == [Cylinder(UnitVertsInit, 32, 8, 8) EXCEPT !.pos = Vector(0, 0, 4 * One)]
payload == [Cylinder(UnitVertsInit, 8, 8, 2) EXCEPT !.pos = Vector(0, 0, 36 * One)]

\* the merge loop is not running
MergeIdle ==
    /\ mN = 0
    /\ mI = 0
    /\ mVertCount = 0
    /\ mIndCount = 0
    /\ mBlock = <<>>

\* new Spacecraft(name)
Init ==
    /\ unitVerts = UnitVertsInit
    /\ cyls = <<engine, booster, payload>>
    /\ components = addComponent(addComponent(addComponent(<<>>, 1), 2), 3)
    /\ posSets = 0
    /\ ret = Ret("Spacecraft", <<>>, "", <<>>, NoData)
    /\ MergeIdle
    /\ KinIdle

\* dimensions a caller gives a new cylinder, in quarters
NewDims == {<<4, 2, 2>>, <<4, 2, 0>>}
\* dimensions below 0 a caller may give as well: a height and a top radius
InvalidDims == {<<-4, 2, -2>>}
\* offsets a caller assigns to pos
Offsets == {Vector(1000, 2000, 3000)}

\* a construction whose getVectors scales the top centre of the template in place
NewCylinderScalingTemplate(dz, r0, r1) ==
    /\ Len(cyls) < MaxCylinders
    /\ cyls' = Append(cyls, Cylinder(unitVerts, dz, r0, r1))
    /\ unitVerts' = [unitVerts EXCEPT !.top.cntr = scale(unitVerts.top.cntr, dz)]
    /\ ret' = Ret("Cylinder", <<dz, r0, r1>>, "", <<Len(cyls) + 1>>, NoData)
    /\ UNCHANGED <<components, posSets, mN, mI, mVertCount, mIndCount, mBlock, kinVars>>

\* new Cylinder(dz, r0, r1)
NewCylinder(dz, r0, r1) ==
    /\ Len(cyls) < MaxCylinders
    /\ cyls' = Append(cyls, Cylinder(unitVerts, dz, r0, r1))
    /\ ret' = Ret("Cylinder", <<dz, r0, r1>>, "", <<Len(cyls) + 1>>, NoData)
    /\ UNCHANGED <<unitVerts, components, posSets, mN, mI, mVertCount, mIndCount, mBlock, kinVars>>

\* c.pos = p (SpacecraftComponent.pos setter)
SetPos(c, p) ==
    /\ posSets < MaxPosSets
    /\ cyls' = [cyls EXCEPT ![c].pos = p]
    /\ posSets' = posSets + 1
    /\ ret' = Ret("pos", <<c>> \o p, "", <<>>, NoData)
    /\ UNCHANGED <<unitVerts, components, mN, mI, mVertCount, mIndCount, mBlock, kinVars>>

\* Spacecraft.addComponent(comp)
AddComponent(c) ==
    /\ components' = addComponent(components, c)
    /\ ret' = Ret("addComponent", <<c>>, "", <<Len(components')>>, NoData)
    /\ UNCHANGED <<unitVerts, cyls, posSets, mN, mI, mVertCount, mIndCount, mBlock, kinVars>>

\* the body of Spacecraft.removeComponent once ind is known (lines 229-238)
RemoveAt(op, arg, ind) ==
    /\ IF IndexRejected(components, ind)
       THEN /\ ret' = ThrowRangeError(op, arg, ind)
            /\ UNCHANGED components
       ELSE /\ ret' = Ret(op, arg, "", SpliceRemoved(components, ind), NoData)
            /\ components' = SpliceRest(components, ind)
    /\ UNCHANGED <<unitVerts, cyls, posSets, mN, mI, mVertCount, mIndCount, mBlock, kinVars>>

\* Spacecraft.removeComponent(comp) with a component reference
RemoveComponentRef(c) ==
    RemoveAt("removeComponent(ref)", <<c>>, indexOf(components, c))

\* Spacecraft.removeComponent(ind) with a numeric index
RemoveComponentIndex(ind) ==
    RemoveAt("removeComponent(index)", <<ind>>, ind)

\* Spacecraft.getComponent(ind)
GetComponent(ind) ==
    /\ IF IndexRejected(components, ind)
       THEN ret' = ThrowRangeError("getComponent", <<ind>>, ind)
       ELSE ret' = Ret("getComponent", <<ind>>, "",
                       IF ind < Len(components) THEN <<components[ind + 1]>> ELSE <<>>,
                       NoData)
    /\ UNCHANGED <<unitVerts, cyls, components, posSets, mN, mI, mVertCount, mIndCount, mBlock, kinVars>>

\* reading Spacecraft.elements
GetSpacecraftElements ==
    /\ ret' = Ret("Spacecraft.elements", <<>>, "", <<>>, SpacecraftElements(components, cyls))
    /\ UNCHANGED <<unitVerts, cyls, components, posSets, mN, mI, mVertCount, mIndCount, mBlock, kinVars>>

\* reading c.elements of a cylinder
GetCylinderElements(c) ==
    /\ ret' = Ret("Cylinder.elements", <<c>>, "", <<>>, CylinderElements(cyls[c]))
    /\ UNCHANGED <<unitVerts, cyls, components, posSets, mN, mI, mVertCount, mIndCount, mBlock, kinVars>>

\* reading c.vectorArray of a cylinder
GetCylinderVectorArray(c) ==
    /\ ret' = [Ret("Cylinder.vectorArray", <<c>>, "", <<>>, NoData)
                    EXCEPT !.vectors = vectorArray(cyls[c])]
    /\ UNCHANGED <<unitVerts, cyls, components, posSets, mN, mI, mVertCount, mIndCount, mBlock, kinVars>>

\* reading Spacecraft.vectorArray
GetSpacecraftVectorArray ==
    /\ ret' = [Ret("Spacecraft.vectorArray", <<>>, "", <<>>, NoData)
                    EXCEPT !.vectors = SpacecraftVectorArray(components, cyls)]
    /\ UNCHANGED <<unitVerts, cyls, components, posSets, mN, mI, mVertCount, mIndCount, mBlock, kinVars>>

\* the indices a caller may pass: every valid one, -1, the length and one past it
Indices == -1..(Len(components) + 1)

\* the component list and the cylinders a caller may build for it
Next ==
    \/ \E d \in NewDims \cup InvalidDims : NewCylinder(d[1], d[2], d[3])
    \/ \E c \in 1..Len(cyls) : AddComponent(c)
    \/ \E c \in 1..Len(cyls) : RemoveComponentRef(c)
    \/ \E ind \in Indices : RemoveComponentIndex(ind)
    \/ \E ind \in Indices : GetComponent(ind)

Spec == Init /\ [][Next]_vars

(***************************************************************************)
(* The merged buffers: the spacecraft of the constructor, whose components *)
(* are moved, removed, put back and given new offsets, and whose elements  *)
(* are read.                                                               *)
(***************************************************************************)
NextGeom ==
    \/ \E c \in 1..Len(cyls), p \in Offsets : SetPos(c, p)
    \/ \E c \in 1..Len(cyls) : AddComponent(c)
    \/ \E c \in 1..Len(cyls) : RemoveComponentRef(c)
    \/ GetSpacecraftElements

SpecGeom == Init /\ [][NextGeom]_vars

(***************************************************************************)
(* Building and reading geometry: cylinders are built and given offsets,   *)
(* and the vertices and buffers of cylinders and of the spacecraft read.   *)
(***************************************************************************)
NextRead ==
    \/ \E d \in NewDims : NewCylinder(d[1], d[2], d[3])
    \/ \E c \in 1..Len(cyls), p \in Offsets : SetPos(c, p)
    \/ \E c \in 1..Len(cyls) : GetCylinderVectorArray(c)
    \/ \E c \in 1..Len(cyls) : GetCylinderElements(c)
    \/ GetSpacecraftVectorArray
    \/ GetSpacecraftElements

SpecRead == Init /\ [][NextRead]_vars

(***************************************************************************)
(* Cylinder.elements as a function of one cylinder: the cylinder is drawn  *)
(* from all dimensions (zero included) and offsets, and its buffer read.   *)
(***************************************************************************)
\* dz, r0 and r1 of the cylinders examined, in quarters
Dims == {0, 1, 4}
\* pos of the cylinders examined
CylOffsets == {Vector(0, 0, 0), Vector(0, 0, 4 * One), Vector(1000, 2000, 3000)}

InitCyl ==
    /\ unitVerts = UnitVertsInit
    /\ \E dz \in Dims, r0 \in Dims, r1 \in Dims, p \in CylOffsets :
            cyls = <<[Cylinder(UnitVertsInit, dz, r0, r1) EXCEPT !.pos = p]>>
    /\ components = <<>>
    /\ posSets = 0
    /\ ret = Ret("Cylinder", <<>>, "", <<1>>, NoData)
    /\ MergeIdle
    /\ KinIdle

NextCyl == \E c \in 1..Len(cyls) : GetCylinderElements(c)

SpecCyl == InitCyl /\ [][NextCyl]_vars

(***************************************************************************)
(* The merge loop of Spacecraft.elements (lines 168-181), one iteration    *)
(* per step, for a spacecraft of mN cylinders.  Only the counters and the  *)
(* index values written by the last iteration are kept.                    *)
(***************************************************************************)
\* compElements[i] of every component: all cylinders have the same counts and indices
MergeComp == CylinderElements(Cylinder(UnitVertsInit, 4, 4, 4))

\* numbers of components of the spacecraft merged
MergeSizes == {2, 3, MaxMergeComponents}

InitMerge ==
    /\ unitVerts = UnitVertsInit
    /\ cyls = <<>>
    /\ components = <<>>
    /\ posSets = 0
    /\ ret = Ret("Spacecraft.elements", <<>>, "", <<>>, NoData)
    /\ mN \in MergeSizes
    /\ mI = 0
    /\ mVertCount = 0
    /\ mIndCount = 0
    /\ mBlock = <<>>
    /\ KinIdle

\* one iteration of the loop at line 168
MergeStep ==
    /\ mI < mN
    /\ mBlock' = RebasedIndex(MergeComp, mVertCount)
    /\ mVertCount' = mVertCount + MergeComp.vertCount
    /\ mIndCount' = mIndCount + MergeComp.indCount
    /\ mI' = mI + 1
    /\ UNCHANGED <<unitVerts, cyls, components, posSets, ret, mN, kinVars>>

NextMerge == MergeStep

SpecMerge == InitMerge /\ [][NextMerge]_vars

(***************************************************************************)
(* Properties                                                              *)
(***************************************************************************)
\* the set of items of a list
Range(list) == {list[k] : k \in 1..Len(list)}

\* a list without the items equal to c, the others in their order
Without(list, c) == SelectSeq(list, LAMBDA x : x # c)

\* triangle t (from 0) of a DataIndex: its three index values
Triangle(data, t) == <<data.index[(3 * t) + 1], data.index[(3 * t) + 2], data.index[(3 * t) + 3]>>

\* the state follows a read of c.elements of a cylinder
CylinderElementsRead == ret.op = "Cylinder.elements"

C2_IndexBounds ==
    CylinderElementsRead =>
        /\ Len(ret.data.index) % 3 = 0
        /\ Len(ret.data.position) % 3 = 0
        /\ \A k \in 1..Len(ret.data.index) :
                /\ ret.data.index[k] >= 0
                /\ ret.data.index[k] < Len(ret.data.position) \div 3

\* C2 witness: a buffer was read whose greatest index is the last vertex
C2_Witness ==
    /\ CylinderElementsRead
    /\ Len(ret.data.index) > 0
    /\ \E k \in 1..Len(ret.data.index) :
            ret.data.index[k] = (Len(ret.data.position) \div 3) - 1

\* C3: the color array of Cylinder.elements holds one RGBA quadruple per
\* emitted vertex: position length / 3 = color length / 4.
C3_ColorPerVertex ==
    CylinderElementsRead =>
        /\ Len(ret.data.color) % 4 = 0
        /\ Len(ret.data.position) \div 3 = Len(ret.data.color) \div 4

\* the state follows a read of Spacecraft.elements
SpacecraftElementsRead == ret.op = "Spacecraft.elements"

\* the buffer of the component at place j (from 1) of the list, taken alone
OwnElements(j) == CylinderElements(cyls[components[j]])

\* the vertices emitted by the components before place j
VerticesBefore(j) ==
    SumCounts([i \in 1..(j - 1) |-> OwnElements(i)], "vertCount")

\* C4: for a spacecraft of two components whose own buffers have v1 and v2
\* vertices, Spacecraft.elements returns v1 + v2 vertices; the index values of
\* the first component come first and unchanged, and every index k of the
\* second follows, in the same order, as k + v1.
C4_TwoComponentMerge ==
    (SpacecraftElementsRead /\ Len(components) = 2) =>
        LET e1 == OwnElements(1)
            e2 == OwnElements(2)
            v1 == Len(e1.position) \div 3
            v2 == Len(e2.position) \div 3
        IN  /\ ret.data.vertCount = v1 + v2
            /\ Len(ret.data.position) = 3 * (v1 + v2)
            /\ Len(ret.data.index) = Len(e1.index) + Len(e2.index)
            /\ \A k \in 1..Len(e1.index) : ret.data.index[k] = e1.index[k]
            /\ \A k \in 1..Len(e2.index) :
                    ret.data.index[Len(e1.index) + k] = e2.index[k] + v1

\* C4 witness: the merged buffer of two components was read, and the second
\* component's bottom centre (12) is referred to as 12 + 74
C4_Witness ==
    /\ SpacecraftElementsRead
    /\ Len(components) = 2
    /\ ret.data.vertCount = 148
    /\ ret.data.index[145] = 12 + 74

\* the statement of C5 for the index values written by the last iteration of
\* the merge loop: each is the component's own index plus the vertices of the
\* earlier components, and is less than the merged vertex count
MergedBlockExact ==
    \A k \in 1..Len(mBlock) :
        /\ mBlock[k] = MergeComp.index[k] + ((mI - 1) * MergeComp.vertCount)
        /\ mBlock[k] < mN * MergeComp.vertCount

\* C5 as stated: for a spacecraft of any number of components every merged
\* index value equals the component's own index plus the number of vertices
\* of all earlier components, and is less than the merged vertex count.
C5_AnyNumberOfComponents == (mI > 0) => MergedBlockExact

\* C5 amended: the same, for the components up to which the merged vertex
\* count is at most 65536, the number of values of an unsigned 16-bit index.
C5_MergedIndexWithin16Bits ==
    (mI > 0 /\ mVertCount <= Uint16Range) => MergedBlockExact

\* C5 witness: the 885th component has been merged and the count is 65490
C5_Witness ==
    /\ mI = 885
    /\ mVertCount = 65490
    /\ mVertCount <= Uint16Range
    /\ mBlock[Len(mBlock)] > 65000

\* C6: Spacecraft.elements emits the components' vertices in list order; each
\* merged coordinate is the coordinate of the component's untranslated vertex
\* plus the same coordinate of the component's pos; the merged vertCount is
\* the sum of the components' vertex counts.
C6_TranslatedInListOrder ==
    SpacecraftElementsRead =>
        /\ ret.data.vertCount =
                SumCounts([j \in 1..Len(components) |-> OwnElements(j)], "vertCount")
        /\ Len(ret.data.position) = 3 * ret.data.vertCount
        /\ \A j \in 1..Len(components) :
                LET c     == cyls[components[j]]
                    local == CylinderElements([c EXCEPT !.pos = Vector(0, 0, 0)])
                    first == 3 * VerticesBefore(j)
                IN  \A k \in 1..Len(local.position) :
                        ret.data.position[first + k] =
                            local.position[k] + c.pos[((k - 1) % 3) + 1]

\* C6 witness: a merged buffer was read in which a component with an offset in
\* x, y and z is not the first of the list
C6_Witness ==
    /\ SpacecraftElementsRead
    /\ Len(components) >= 2
    /\ \E j \in 2..Len(components) :
            /\ cyls[components[j]].pos = Vector(1000, 2000, 3000)
            /\ ret.data.position[(3 * VerticesBefore(j)) + 1] =
                    cyls[components[j]].verts[1][1] + 1000

\* C7: Spacecraft.addComponent(c) leaves c exactly once, in the last place,
\* keeps every other component and their order, and returns the new length:
\* the old length if c was in the list, one more otherwise.
C7_AddMovesToEnd ==
    [][ret'.op = "addComponent" =>
        LET c == ret'.arg[1]
        IN  /\ ret'.threw = ""
            /\ components' = Append(Without(components, c), c)
            /\ Cardinality({k \in 1..Len(components') : components'[k] = c}) = 1
            /\ ret'.value = <<Len(components')>>
            /\ Len(components') =
                    IF c \in Range(components) THEN Len(components)
                    ELSE Len(components) + 1]_vars

\* C7 witness: the first component of the constructor's list was added again:
\* it is now last and the count is still 3
C7_Witness ==
    /\ ret.op = "addComponent"
    /\ ret.arg = <<1>>
    /\ ret.value = <<3>>
    /\ components = <<2, 3, 1>>

\* C8: Spacecraft.removeComponent(c) with a component reference removes c
\* alone and returns it when c is in the list, and fails, leaving the list as
\* it was, when c is not; so once it has removed c, a second call with c fails.
C8_RemoveByReference ==
    [][ret'.op = "removeComponent(ref)" =>
        LET c == ret'.arg[1]
        IN  IF c \in Range(components)
            THEN /\ ret'.threw = ""
                 /\ ret'.value = <<c>>
                 /\ components' = Without(components, c)
                 /\ c \notin Range(components')
            ELSE /\ ret'.threw = "RangeError"
                 /\ ret'.value = <<>>
                 /\ components' = components]_vars

\* C8 witness: a removal by reference failed for a component that is not in
\* a list which still holds other components
C8_Witness ==
    /\ ret.op = "removeComponent(ref)"
    /\ ret.threw = "RangeError"
    /\ ret.arg[1] \notin Range(components)
    /\ Len(components) = 2

\* C9: Spacecraft.getComponent(index) returns the component at that place for
\* every index in [0, count) and fails with a RangeError for every other
\* index, index = count and index 0 of an empty list included.
C9_GetComponentRange ==
    ret.op = "getComponent" =>
        LET ind == ret.arg[1]
        IN  IF 0 <= ind /\ ind < Len(components)
            THEN ret.threw = "" /\ ret.value = <<components[ind + 1]>>
            ELSE ret.threw = "RangeError"

\* C10: Spacecraft.removeComponent(index) with a numeric index fails with a
\* RangeError and leaves the list as it was for every index outside
\* [0, count), and removes and returns the component at that place for every
\* index inside.
C10_RemoveByIndexRange ==
    [][ret'.op = "removeComponent(index)" =>
        LET ind == ret'.arg[1]
        IN  IF 0 <= ind /\ ind < Len(components)
            THEN /\ ret'.threw = ""
                 /\ ret'.value = <<components[ind + 1]>>
                 /\ components' =
                        SubSeq(components, 1, ind)
                        \o SubSeq(components, ind + 2, Len(components))
            ELSE /\ ret'.threw = "RangeError"
                 /\ components' = components]_vars


(***************************************************************************)
(* Failures of removeComponent                                             *)
(***************************************************************************)
\* the failure a caller catches: the class of the error and its message
Failure(r) == <<r.threw, r.message>>

\* the numeric indices removeComponent rejects
RejectedIndices == {ind \in Indices : IndexRejected(components, ind)}

\* C11 as stated: the failure of removeComponent for a component that is not in
\* the list is a not-found failure, which differs from the range-violation
\* failure of every rejected numeric index
C11_NotFoundDistinctFromRange ==
    (ret.op = "removeComponent(ref)" /\ ret.threw # "")
        => \A ind \in RejectedIndices :
                Failure(ret) # Failure(ThrowRangeError(ret.op, ret.arg, ind))

\* C11 amended: removeComponent of a component that is not in the list throws
\* the RangeError of the numeric index -1, with the same message, and leaves
\* the list as it was
C11_NotFoundIsRangeErrorOfMinusOne ==
    [][(ret'.op = "removeComponent(ref)" /\ ret'.arg[1] \notin Range(components))
        => /\ ret'.threw = "RangeError"
           /\ ret'.message = <<-1>>
           /\ Failure(ret') = Failure(ThrowRangeError(ret'.op, ret'.arg, -1))
           /\ components' = components]_vars

\* a component that is not in the list has been asked to be removed
C11_Witness ==
    /\ ret.op = "removeComponent(ref)"
    /\ ret.arg[1] \notin Range(components)
    /\ ret.threw = "RangeError"
    /\ ret.message = <<-1>>
    /\ Len(components) > 0

(***************************************************************************)
(* Construction parameters of a cylinder                                   *)
(***************************************************************************)
\* C12: new Cylinder with a negative height or a negative radius fails and
\* makes no Cylinder (edgeCount is the static constant 12 and no caller gives it,
\* so an edge count below 3 does not occur)
C12_InvalidCylinderRejected ==
    (ret.op = "Cylinder" /\ \E k \in 1..3 : ret.arg[k] < 0)
        => /\ ret.threw # ""
           /\ ret.value = <<>>

(***************************************************************************)
(* Surfaces of one cylinder: the vertex groups and the triangles on them   *)
(***************************************************************************)
\* the coordinates of vertex slot k (from 0) of a buffer
Vertex(data, k) ==
    <<data.position[(3 * k) + 1], data.position[(3 * k) + 2], data.position[(3 * k) + 3]>>

\* the vertex slots a triangle refers to
Corners(data, t) == {Triangle(data, t)[j] : j \in 1..3}

\* the surface of triangle t: 0 the bottom, 1 the top, 2 + i side face i
Surface(t) ==
    IF t < edgeCount THEN 0
    ELSE IF t < 2 * edgeCount THEN 1
    ELSE 2 + ((t - (2 * edgeCount)) \div 2)

\* the vertex slots of a surface: perimeter and centre of a cap, the four
\* copies of a side face
Group(sf) ==
    IF sf = 0 THEN 0..edgeCount
    ELSE IF sf = 1 THEN (edgeCount + 1)..((2 * edgeCount) + 1)
    ELSE LET first == ((2 * edgeCount) + 2) + (4 * (sf - 2))
         IN  first..(first + 3)

\* slots of the two centres in the vertex list
BottomCentreSlot == edgeCount
TopCentreSlot == (2 * edgeCount) + 1

\* C13: in the buffer of Cylinder.elements every triangle refers to vertex
\* slots of its own surface only (bottom cap, top cap, or the four copies of
\* its side face), so no slot is shared by triangles of two surfaces; each
\* centre is referred to by exactly edgeCount triangles, and where the
\* cylinder is not degenerate its coordinates occur once in the vertex list
C13_SurfacesShareNoVertex ==
    CylinderElementsRead =>
        LET d == ret.data
            tris == 0..((4 * edgeCount) - 1)
            slots == 0..(d.vertCount - 1)
        IN  /\ \A t \in tris : Corners(d, t) \subseteq Group(Surface(t))
            /\ \A t \in tris, u \in tris :
                    Surface(t) # Surface(u) => Corners(d, t) \cap Corners(d, u) = {}
            /\ Cardinality({t \in tris : BottomCentreSlot \in Corners(d, t)}) = edgeCount
            /\ Cardinality({t \in tris : TopCentreSlot \in Corners(d, t)}) = edgeCount
            /\ \A t \in tris : BottomCentreSlot \in Corners(d, t) => Surface(t) = 0
            /\ \A t \in tris : TopCentreSlot \in Corners(d, t) => Surface(t) = 1
            /\ (cyls[1].dz # 0 /\ cyls[1].r0 # 0 /\ cyls[1].r1 # 0) =>
                    /\ Cardinality({k \in slots : Vertex(d, k) = Vertex(d, BottomCentreSlot)}) = 1
                    /\ Cardinality({k \in slots : Vertex(d, k) = Vertex(d, TopCentreSlot)}) = 1

\* the buffer of a cylinder with height and both radii other than 0 was read
C13_Witness ==
    /\ CylinderElementsRead
    /\ cyls[1].dz = 4
    /\ cyls[1].r0 = 4
    /\ cyls[1].r1 = 1
    /\ Corners(ret.data, 0) = {12, 0, 1}
    /\ Corners(ret.data, (4 * edgeCount) - 1) = {72, 71, 73}

\* first slot of the four copies of side face i
SideSlot(i) == ((2 * edgeCount) + 2) + (4 * i)

\* C14: for each side face i the buffer of Cylinder.elements holds four
\* copies of its own, at the positions of bottom[i], top[i], bottom[(i+1) mod n]
\* and top[(i+1) mod n] in that order, and exactly two triangles on them, which
\* together use all four copies and have one diagonal (two copies) in common
C14_SideFaceQuad ==
    CylinderElementsRead =>
        LET d == ret.data
        IN  \A i \in 0..(edgeCount - 1) :
                LET s  == SideSlot(i)
                    i1 == IF i = edgeCount - 1 THEN 0 ELSE i + 1
                    t0 == (2 * edgeCount) + (2 * i)
                    t1 == t0 + 1
                IN  /\ Vertex(d, s) = Vertex(d, i)
                    /\ Vertex(d, s + 1) = Vertex(d, (edgeCount + 1) + i)
                    /\ Vertex(d, s + 2) = Vertex(d, i1)
                    /\ Vertex(d, s + 3) = Vertex(d, (edgeCount + 1) + i1)
                    /\ s > TopCentreSlot
                    /\ {t \in 0..((4 * edgeCount) - 1) :
                            Corners(d, t) \cap (s..(s + 3)) # {}} = {t0, t1}
                    /\ Cardinality(Corners(d, t0)) = 3
                    /\ Cardinality(Corners(d, t1)) = 3
                    /\ Corners(d, t0) \cup Corners(d, t1) = s..(s + 3)
                    /\ Corners(d, t0) \cap Corners(d, t1) = {s + 1, s + 2}

\* the buffer of a cylinder with distinct perimeter points was read: the last
\* face closes on slot 0 and the copies of a face are four distinct points
C14_Witness ==
    /\ CylinderElementsRead
    /\ cyls[1].dz = 4
    /\ cyls[1].r0 = 1
    /\ cyls[1].r1 = 4
    /\ Vertex(ret.data, SideSlot(edgeCount - 1) + 2) = Vertex(ret.data, 0)
    /\ Vertex(ret.data, SideSlot(edgeCount - 1) + 2) # Vertex(ret.data, BottomCentreSlot)
    /\ Cardinality({Vertex(ret.data, SideSlot(0) + j) : j \in 0..3}) = 4

\* C15: bottom triangle i of Cylinder.elements is (bottom centre, i,
\* (i+1) mod n) and top triangle i is (top centre, top[(i+1) mod n], top[i]):
\* the two perimeter indices are in opposite order on the two caps
C15_CapTriangles ==
    CylinderElementsRead =>
        \A i \in 0..(edgeCount - 1) :
            LET i1 == IF i = edgeCount - 1 THEN 0 ELSE i + 1
            IN  /\ Triangle(ret.data, i) = <<edgeCount, i, i1>>
                /\ Triangle(ret.data, edgeCount + i)
                        = <<(2 * edgeCount) + 1, (edgeCount + 1) + i1, (edgeCount + 1) + i>>

\* a buffer was read whose last cap triangles close on the first perimeter slot
C15_Witness ==
    /\ CylinderElementsRead
    /\ Triangle(ret.data, 11) = <<12, 11, 0>>
    /\ Triangle(ret.data, 23) = <<25, 13, 24>>
    /\ Triangle(ret.data, 12) = <<25, 14, 13>>

GeometryOps ==
    {"Cylinder", "Cylinder.vectorArray", "Cylinder.elements",
     "Spacecraft.vectorArray", "Spacecraft.elements"}

\* cylinder c as new Cylinder would build it from the template of module
\* initialisation, at the offset it has now
Rebuilt(c) ==
    [Cylinder(UnitVertsInit, c.dz, c.r0, c.r1) EXCEPT !.pos = c.pos]

\* C17: a step that builds a cylinder or reads vectorArray or elements of a
\* cylinder or of the spacecraft leaves Cylinder.unitVerts equal to the
\* template of module initialisation, every existing cylinder's stored
\* vertices and pos as they were, and the component list as it was; what a
\* read returns is what the same read returns on cylinders newly built with
\* the same dimensions and offsets, and a read repeated at once returns a
\* buffer equal to the previous one
C17_GeometryWritesNothing ==
    [][ret'.op \in GeometryOps =>
        /\ unitVerts' = unitVerts
        /\ unitVerts' = UnitVertsInit
        /\ components' = components
        /\ Len(cyls') >= Len(cyls)
        /\ \A k \in 1..Len(cyls) : cyls'[k] = cyls[k]
        /\ \A k \in 1..Len(cyls') : cyls'[k].verts = Rebuilt(cyls'[k]).verts
        /\ ret'.op = "Cylinder.elements" =>
                ret'.data = CylinderElements(Rebuilt(cyls[ret'.arg[1]]))
        /\ ret'.op = "Cylinder.vectorArray" =>
                ret'.vectors = vectorArray(Rebuilt(cyls[ret'.arg[1]]))
        /\ ret'.op = "Spacecraft.elements" =>
                ret'.data = SpacecraftElements(components,
                                [k \in 1..Len(cyls) |-> Rebuilt(cyls[k])])
        /\ ret'.op = "Spacecraft.vectorArray" =>
                ret'.vectors = SpacecraftVectorArray(components,
                                [k \in 1..Len(cyls) |-> Rebuilt(cyls[k])])
        /\ (ret'.op # "Cylinder" /\ ret.op = ret'.op /\ ret.arg = ret'.arg) =>
                (ret'.data = ret.data /\ ret'.vectors = ret.vectors)]_vars

\* the spacecraft's buffer has been read after a cylinder was built and a
\* component given an offset, and everything is as it was built
C17_Witness ==
    /\ ret.op = "Spacecraft.elements"
    /\ Len(cyls) = 4
    /\ posSets = 1
    /\ unitVerts = UnitVertsInit
    /\ components = <<1, 2, 3>>
    /\ cyls[2].pos = Vector(1000, 2000, 3000)
    /\ cyls[4].verts = getVectors(UnitVertsInit, 4, 2, 0)
    /\ ret.data.vertCount = 3 * 74

(***************************************************************************)
(* The earlier revision of Spacecraft (lines 564-1084 of Spacecraft.ts):   *)
(* its constructor adds one Cylinder(6, 2), addComponent splices when the  *)
(* component is absent, and elements keeps one offset per array.           *)
(***************************************************************************)
\* Length of the longest component list followed in the earlier revision, whose
\* addComponent lets the list grow without limit.
MaxEarlierComponents == 3

\* the cylinder built by the earlier constructor: new Cylinder(6, 2), r1 = r0
cylinderEarlier == Cylinder(UnitVertsInit, 24, 8, 8)

\* the list left by the earlier addComponent(c) (lines 765-770)
addComponentEarlier(list, c) ==
    LET ind == indexOf(list, c)
    IN  Append(IF ind < 0 THEN SpliceRest(list, ind) ELSE list, c)

\* the earlier Cylinder.elements (lines 995-1074): the vertices and indices are
\* built by the statements of the later revision (lines 441-507) from a
\* vectorArray that copies the stored vertices (line 976; pos has no setter
\* and stays the origin), color is empty and there are no counts
CylinderElementsEarlier(c) ==
    LET e == CylinderElements([c EXCEPT !.pos = Vector(0, 0, 0)])
    IN  [position |-> e.position, color |-> <<>>, normal |-> <<>>, index |-> e.index]

RECURSIVE SumLengthsEarlier(_, _)
\* counts.position, .color, .normal, .index of the first loop (lines 709-715)
SumLengthsEarlier(compElements, field) ==
    IF compElements = <<>> THEN 0
    ELSE Len(compElements[1][field]) + SumLengthsEarlier(Tail(compElements), field)

\* one iteration of the second loop (lines 729-741): the arrays and the offsets
\* after comp is merged; the index values are re-based by offset.index
MergeComponentEarlier(m, comp) ==
    [elements |->
        [position |-> TypedArraySet(m.elements.position, comp.position, m.offset.position),
         color    |-> TypedArraySet(m.elements.color, comp.color, m.offset.color),
         normal   |-> TypedArraySet(m.elements.normal, comp.normal, m.offset.normal),
         index    |-> TypedArraySet(m.elements.index,
                        [k \in 1..Len(comp.index) |->
                            ToUint16(comp.index[k] + m.offset.index)],
                        m.offset.index)],
     offset |->
        [position |-> m.offset.position + Len(comp.position),
         color    |-> m.offset.color + Len(comp.color),
         normal   |-> m.offset.normal + Len(comp.normal),
         index    |-> m.offset.index + Len(comp.index)]]

RECURSIVE MergeFromEarlier(_, _, _)
\* the second loop from iteration i (1-based) on
MergeFromEarlier(compElements, i, m) ==
    IF i > Len(compElements) THEN m
    ELSE MergeFromEarlier(compElements, i + 1, MergeComponentEarlier(m, compElements[i]))

\* the earlier Spacecraft.elements (lines 700-744)
SpacecraftElementsEarlier(list, heap) ==
    LET compElements == [i \in 1..Len(list) |-> CylinderElementsEarlier(heap[list[i]])]
        start ==
            [elements |->
                [position |-> ZeroArray(SumLengthsEarlier(compElements, "position")),
                 color    |-> ZeroArray(SumLengthsEarlier(compElements, "color")),
                 normal   |-> ZeroArray(SumLengthsEarlier(compElements, "normal")),
                 index    |-> ZeroArray(SumLengthsEarlier(compElements, "index"))],
             offset |-> [position |-> 0, color |-> 0, normal |-> 0, index |-> 0]]
    IN  MergeFromEarlier(compElements, 1, start).elements

\* new Spacecraft(name) in the earlier revision (lines 642-649)
InitEarlier ==
    /\ unitVerts = UnitVertsInit
    /\ cyls = <<cylinderEarlier>>
    /\ components = addComponentEarlier(<<>>, 1)
    /\ posSets = 0
    /\ ret = Ret("Spacecraft", <<>>, "", <<>>, NoData)
    /\ MergeIdle
    /\ KinIdle

\* the earlier Spacecraft.addComponent(comp)
AddComponentEarlier(c) ==
    /\ Len(components) < MaxEarlierComponents
    /\ components' = addComponentEarlier(components, c)
    /\ ret' = Ret("addComponent(earlier)", <<c>>, "", <<Len(components')>>, NoData)
    /\ UNCHANGED <<unitVerts, cyls, posSets, mN, mI, mVertCount, mIndCount, mBlock, kinVars>>

\* reading the earlier Spacecraft.elements
GetSpacecraftElementsEarlier ==
    /\ ret' = Ret("Spacecraft.elements(earlier)", <<>>, "", <<>>,
                  SpacecraftElementsEarlier(components, cyls))
    /\ UNCHANGED <<unitVerts, cyls, components, posSets, mN, mI, mVertCount, mIndCount, mBlock, kinVars>>

\* the earlier spacecraft, the cylinders a caller builds for it, and its list
\* and buffer (removeComponent is the same in both revisions, lines 779-799)
NextEarlier ==
    \/ \E d \in NewDims : NewCylinder(d[1], d[2], d[3])
    \/ \E c \in 1..Len(cyls) : AddComponentEarlier(c)
    \/ \E c \in 1..Len(cyls) : RemoveComponentRef(c)
    \/ GetSpacecraftElementsEarlier

SpecEarlier == InitEarlier /\ [][NextEarlier]_vars

\* C18: the earlier addComponent returns the number of components; a
\* component that was not in the list is appended and no other component is
\* removed; a component that was in the list is moved to the end and occurs
\* once
C18_EarlierAddComponent ==
    [][ret'.op = "addComponent(earlier)" =>
        LET c == ret'.arg[1]
        IN  /\ ret'.value = <<Len(components')>>
            /\ c \notin Range(components) => components' = Append(components, c)
            /\ c \in Range(components) =>
                    components' = Append(Without(components, c), c)]_vars

\* C19: in the buffer of the earlier Spacecraft.elements of two or more
\* components every index value is re-based by the vertices of the components
\* before its own, so it is less than the number of merged vertices
\* (position length / 3)
C19_EarlierMergedIndexBounds ==
    (ret.op = "Spacecraft.elements(earlier)" /\ Len(components) >= 2) =>
        /\ \A k \in 1..Len(ret.data.index) :
                ret.data.index[k] < Len(ret.data.position) \div 3
        /\ \A j \in 1..Len(components) :
                LET own == CylinderElementsEarlier(cyls[components[j]])
                    n   == Len(own.index)
                IN  \A k \in 1..n :
                        ret.data.index[((j - 1) * n) + k]
                            = own.index[k] + ((j - 1) * (Len(own.position) \div 3))

(***************************************************************************)
(* Angle (kinematics/geometry/Angle.ts): a value in radians and in         *)
(* degrees, each computed from the other when read and then cached.        *)
(* Radians are held in thousandths of a radian, degrees in thousandths of  *)
(* a degree; the quotients are rounded down.                               *)
(***************************************************************************)
\* Math.PI in thousandths
PiMilli == 3142
\* the 180 of the conversions, in thousandths of a degree
HalfTurnMilliDeg == 180000

\* private _rad = null, _deg = null
AngleNull == [rad |-> <<>>, deg |-> <<>>]

\* Math.PI * this._deg / 180
RadOfDeg(d) == (PiMilli * d) \div HalfTurnMilliDeg
\* 180 * this._rad / Math.PI
DegOfRad(r) == (HalfTurnMilliDeg * r) \div PiMilli

\* a radians setter that leaves the degrees as they were
AngleSetRKeepsDeg(a, radians) == [a EXCEPT !.rad = <<radians>>]
\* set r(radians)
AngleSetR(a, radians) == [rad |-> <<radians>>, deg |-> <<>>]
\* set d(degrees)
AngleSetD(a, degrees) == [rad |-> <<>>, deg |-> <<degrees>>]

\* new Angle(val, isDegrees)
NewAngle(val, isDegrees) ==
    IF isDegrees THEN AngleSetD(AngleNull, val) ELSE AngleSetR(AngleNull, val)

\* get r: the object after the call, the error thrown and the value returned
AngleGetR(a) ==
    IF a.rad = <<>>
    THEN IF a.deg = <<>>
         THEN [obj |-> a, threw |-> "TypeError", value |-> <<>>]
         ELSE LET rad == RadOfDeg(a.deg[1])
              IN  [obj |-> [a EXCEPT !.rad = <<rad>>], threw |-> "", value |-> <<rad>>]
    ELSE [obj |-> a, threw |-> "", value |-> a.rad]

\* get d
AngleGetD(a) ==
    IF a.deg = <<>>
    THEN IF a.rad = <<>>
         THEN [obj |-> a, threw |-> "TypeError", value |-> <<>>]
         ELSE LET deg == DegOfRad(a.rad[1])
              IN  [obj |-> [a EXCEPT !.deg = <<deg>>], threw |-> "", value |-> <<deg>>]
    ELSE [obj |-> a, threw |-> "", value |-> a.deg]

\* values a caller gives in radians and in degrees
AngleRads ==
    {-3142, -2356, -1571, -785, 0, 785, 1571, 2356, 3142, 3927, 4712, 5498, 6283, 1000}
AngleDegs ==
    {-180000, -135000, -90000, -45000, 0, 45000, 90000, 135000, 180000, 225000,
     270000, 315000, 360000, 1000}

\* angle.r
ReadAngleR ==
    LET got == AngleGetR(ang)
    IN  /\ ang' = got.obj
        /\ ret' = Ret("Angle.r", <<>>, got.threw, got.value, NoData)
        /\ UNCHANGED <<geomVars, vec, ell, assigns, planetM, crafts, craftM, activeCraft,
                       gameTime, lastRun>>

\* angle.d
ReadAngleD ==
    LET got == AngleGetD(ang)
    IN  /\ ang' = got.obj
        /\ ret' = Ret("Angle.d", <<>>, got.threw, got.value, NoData)
        /\ UNCHANGED <<geomVars, vec, ell, assigns, planetM, crafts, craftM, activeCraft,
                       gameTime, lastRun>>

\* angle.r = radians
AssignAngleR(radians) ==
    /\ ang' = AngleSetR(ang, radians)
    /\ ret' = Ret("Angle.r=", <<radians>>, "", <<>>, NoData)
    /\ UNCHANGED <<geomVars, vec, ell, assigns, planetM, crafts, craftM, activeCraft,
                   gameTime, lastRun>>

\* angle.d = degrees
AssignAngleD(degrees) ==
    /\ ang' = AngleSetD(ang, degrees)
    /\ ret' = Ret("Angle.d=", <<degrees>>, "", <<>>, NoData)
    /\ UNCHANGED <<geomVars, vec, ell, assigns, planetM, crafts, craftM, activeCraft,
                   gameTime, lastRun>>

\* no spacecraft: the geometry variables of a state with objects of other classes
GeomIdle ==
    /\ unitVerts = UnitVertsInit
    /\ cyls = <<>>
    /\ components = <<>>
    /\ posSets = 0
    /\ MergeIdle

\* new Angle(), new Angle(radians), new Angle(degrees, true)
InitAngle ==
    /\ GeomIdle
    /\ \/ ang = NewAngle(0, FALSE)
       \/ \E radians \in AngleRads : ang = NewAngle(radians, FALSE)
       \/ \E degrees \in AngleDegs : ang = NewAngle(degrees, TRUE)
    /\ ret = Ret("Angle", <<>>, "", <<>>, NoData)
    /\ VectorIdle
    /\ EllipseIdle
    /\ SimIdle
    /\ assigns = 0

NextAngle ==
    \/ ReadAngleR
    \/ ReadAngleD
    \/ \E radians \in AngleRads : AssignAngleR(radians)
    \/ \E degrees \in AngleDegs : AssignAngleD(degrees)

SpecAngle == InitAngle /\ [][NextAngle]_vars

\* the calls on an Angle
AngleOps == {"Angle", "Angle.r", "Angle.d", "Angle.r=", "Angle.d="}

\* C28: after construction and after every getter and setter call an Angle
\* has its radians or its degrees defined and no getter has thrown; a getter
\* fills the missing value only, leaving a defined one as it was, and a setter
\* defines its own value and makes the other one null
C28_AngleNeverIndeterminate ==
    /\ (ang.rad # <<>> \/ ang.deg # <<>>)
    /\ [][ret'.op \in AngleOps =>
            /\ ang'.rad # <<>> \/ ang'.deg # <<>>
            /\ ret'.threw = ""
            /\ ret'.op = "Angle.r" =>
                    /\ ang'.deg = ang.deg
                    /\ ang.rad # <<>> => ang'.rad = ang.rad
                    /\ ang.rad = <<>> => ang'.rad = <<RadOfDeg(ang.deg[1])>>
                    /\ ret'.value = ang'.rad
            /\ ret'.op = "Angle.d" =>
                    /\ ang'.rad = ang.rad
                    /\ ang.deg # <<>> => ang'.deg = ang.deg
                    /\ ang.deg = <<>> => ang'.deg = <<DegOfRad(ang.rad[1])>>
                    /\ ret'.value = ang'.deg
            /\ ret'.op = "Angle.r=" => ang' = [rad |-> ret'.arg, deg |-> <<>>]
            /\ ret'.op = "Angle.d=" => ang' = [rad |-> <<>>, deg |-> ret'.arg]]_vars

\* an angle given in degrees was read in radians, assigned in radians and read
\* in degrees: the degrees are those of the new radians
C28_Witness ==
    /\ ret.op = "Angle.d"
    /\ ret.threw = ""
    /\ ang = [rad |-> <<1571>>, deg |-> <<90000>>]
    /\ ret.value = <<90000>>

(***************************************************************************)
(* Vector as an object (rendering/VertexWinding.ts, lines 37-381): the     *)
(* Cartesian components _x, _y, _z and the spherical components _theta,    *)
(* _phi (Angle objects) and _r, each null until computed or assigned.      *)
(* Lengths are in thousandths.  Math.cos, Math.sin and Math.atan2 are      *)
(* evaluated on the grid of eighth turns: an angle is rounded to the       *)
(* nearest multiple of PI / 4, and atan2 returns the nearest multiple.     *)
(***************************************************************************)
\* Setter calls made on one object after its construction.
MaxAssigns == 2

\* Math.cos and Math.sin of k * PI / 4, k = 0..7, in thousandths
CosEighth == <<1000, 707, 0, -707, -1000, -707, 0, 707>>
SinEighth == <<0, 707, 1000, 707, 0, -707, -1000, -707>>
\* Math.tan(PI / 8) in thousandths: where atan2 rounds between eighth turns
TanSixteenth == 414

\* the eighth turn nearest to an angle of a thousandths of a radian, 0..7
Octant(a) == (((4 * a) + (PiMilli \div 2)) \div PiMilli) % 8
MathCos(a) == CosEighth[Octant(a) + 1]
MathSin(a) == SinEighth[Octant(a) + 1]

\* Math.sqrt(n) of a square of thousandths, rounded down
MathSqrt(n) == CHOOSE k \in 0..(8 * One) : k * k <= n /\ n < (k + 1) * (k + 1)

Abs(n) == IF n < 0 THEN 0 - n ELSE n

\* Math.atan2(y, x), in thousandths of a radian, from -PI to PI
MathAtan2(y, x) ==
    LET k == IF x = 0 /\ y = 0 THEN 0
             ELSE IF One * Abs(y) < TanSixteenth * Abs(x) THEN 0
             ELSE IF TanSixteenth * Abs(y) > One * Abs(x) THEN 2
             ELSE 1
        eighths == IF x >= 0 THEN k ELSE 4 - k
        a == (eighths * PiMilli) \div 4
    IN  IF y < 0 THEN 0 - a ELSE a

\* the field initialisers of Vector (lines 39-52)
VectorNull ==
    [x |-> <<>>, y |-> <<>>, z |-> <<>>, theta |-> <<>>, phi |-> <<>>, r |-> <<>>]

\* an x setter that leaves the spherical components as they were
VectorSetXKeepsSpherical(v, x) == [v EXCEPT !.x = <<x>>]
\* set x, set y, set z (lines 125-136, 162-173, 198-209)
VectorSetX(v, x) == [v EXCEPT !.x = <<x>>, !.theta = <<>>, !.phi = <<>>, !.r = <<>>]
VectorSetY(v, y) == [v EXCEPT !.y = <<y>>, !.theta = <<>>, !.phi = <<>>, !.r = <<>>]
VectorSetZ(v, z) == [v EXCEPT !.z = <<z>>, !.theta = <<>>, !.phi = <<>>, !.r = <<>>]
\* set theta, set phi, set r (lines 238-249, 277-288, 315-326)
VectorSetTheta(v, theta) == [v EXCEPT !.theta = <<theta>>, !.x = <<>>, !.y = <<>>, !.z = <<>>]
VectorSetPhi(v, phi) == [v EXCEPT !.phi = <<phi>>, !.x = <<>>, !.y = <<>>, !.z = <<>>]
VectorSetR(v, r) == [v EXCEPT !.r = <<r>>, !.x = <<>>, !.y = <<>>, !.z = <<>>]

\* new Vector(c1, c2, c3) (lines 85-87)
NewVectorCartesian(c1, c2, c3) ==
    VectorSetZ(VectorSetY(VectorSetX(VectorNull, c1), c2), c3)
\* new Vector(c1, c2, c3, true) with numbers c1, c2 (lines 63-72)
NewVectorSpherical(c1, c2, c3) ==
    VectorSetR(VectorSetPhi(VectorSetTheta(VectorNull, NewAngle(c1, FALSE)),
                            NewAngle(c2, FALSE)), c3)

\* throw new TypeError('indeterminate vector component')
VectorIndeterminate(v) == [obj |-> v, threw |-> "TypeError", value |-> <<>>]

SphericalValid(v) == v.theta # <<>> /\ v.phi # <<>> /\ v.r # <<>>
CartesianValid(v) == v.x # <<>> /\ v.y # <<>> /\ v.z # <<>>

\* this._phi.r and this._theta.r: the radians, and the Angle with them cached
PhiRead(v) == AngleGetR(v.phi[1])
ThetaRead(v) == AngleGetR(v.theta[1])

\* get x (lines 102-123)
VectorGetX(v) ==
    IF v.x # <<>> THEN [obj |-> v, threw |-> "", value |-> v.x]
    ELSE IF ~SphericalValid(v) THEN VectorIndeterminate(v)
    ELSE LET x == (((v.r[1] * MathCos(PhiRead(v).value[1])) \div One)
                        * MathCos(ThetaRead(v).value[1])) \div One
         IN  [obj |-> [v EXCEPT !.x = <<x>>, !.phi = <<PhiRead(v).obj>>,
                                !.theta = <<ThetaRead(v).obj>>],
              threw |-> "", value |-> <<x>>]

\* get y (lines 139-160)
VectorGetY(v) ==
    IF v.y # <<>> THEN [obj |-> v, threw |-> "", value |-> v.y]
    ELSE IF ~SphericalValid(v) THEN VectorIndeterminate(v)
    ELSE LET y == (((v.r[1] * MathCos(PhiRead(v).value[1])) \div One)
                        * MathSin(ThetaRead(v).value[1])) \div One
         IN  [obj |-> [v EXCEPT !.y = <<y>>, !.phi = <<PhiRead(v).obj>>,
                                !.theta = <<ThetaRead(v).obj>>],
              threw |-> "", value |-> <<y>>]

\* get z (lines 176-196)
VectorGetZ(v) ==
    IF v.z # <<>> THEN [obj |-> v, threw |-> "", value |-> v.z]
    ELSE IF ~SphericalValid(v) THEN VectorIndeterminate(v)
    ELSE LET z == (v.r[1] * MathSin(PhiRead(v).value[1])) \div One
         IN  [obj |-> [v EXCEPT !.z = <<z>>, !.phi = <<PhiRead(v).obj>>],
              threw |-> "", value |-> <<z>>]

\* what ret holds of an Angle returned: which of _rad and _deg it has, then these
AngleValue(a) == <<Len(a.rad), Len(a.deg)>> \o a.rad \o a.deg

\* get theta (lines 214-235)
VectorGetTheta(v) ==
    IF v.theta # <<>> THEN [obj |-> v, threw |-> "", value |-> AngleValue(v.theta[1])]
    ELSE IF ~CartesianValid(v) THEN VectorIndeterminate(v)
    ELSE LET theta == NewAngle(MathAtan2(v.y[1], v.x[1]), FALSE)
         IN  [obj |-> [v EXCEPT !.theta = <<theta>>], threw |-> "",
              value |-> AngleValue(theta)]

\* get phi (lines 253-274)
VectorGetPhi(v) ==
    IF v.phi # <<>> THEN [obj |-> v, threw |-> "", value |-> AngleValue(v.phi[1])]
    ELSE IF ~CartesianValid(v) THEN VectorIndeterminate(v)
    ELSE LET lateral == MathSqrt((v.x[1] * v.x[1]) + (v.y[1] * v.y[1]))
             phi == NewAngle(MathAtan2(v.z[1], lateral), FALSE)
         IN  [obj |-> [v EXCEPT !.phi = <<phi>>], threw |-> "", value |-> AngleValue(phi)]

\* get r (lines 291-313)
VectorGetR(v) ==
    IF v.r # <<>> THEN [obj |-> v, threw |-> "", value |-> v.r]
    ELSE IF ~CartesianValid(v) THEN VectorIndeterminate(v)
    ELSE LET r == MathSqrt((v.x[1] * v.x[1]) + (v.y[1] * v.y[1]) + (v.z[1] * v.z[1]))
         IN  [obj |-> [v EXCEPT !.r = <<r>>], threw |-> "", value |-> <<r>>]

\* a getter call: the object as the getter leaves it, and what it returned or threw
ReadVector(op, got) ==
    /\ vec' = got.obj
    /\ ret' = Ret(op, <<>>, got.threw, got.value, NoData)
    /\ UNCHANGED <<geomVars, ang, ell, assigns, planetM, crafts, craftM, activeCraft,
                   gameTime, lastRun>>

\* a setter call
AssignVector(op, arg, v) ==
    /\ assigns < MaxAssigns
    /\ assigns' = assigns + 1
    /\ vec' = v
    /\ ret' = Ret(op, arg, "", <<>>, NoData)
    /\ UNCHANGED <<geomVars, ang, ell, planetM, crafts, craftM, activeCraft,
                   gameTime, lastRun>>

ReadVectorX == ReadVector("Vector.x", VectorGetX(vec))
ReadVectorY == ReadVector("Vector.y", VectorGetY(vec))
ReadVectorZ == ReadVector("Vector.z", VectorGetZ(vec))
ReadVectorTheta == ReadVector("Vector.theta", VectorGetTheta(vec))
ReadVectorPhi == ReadVector("Vector.phi", VectorGetPhi(vec))
ReadVectorR == ReadVector("Vector.r", VectorGetR(vec))
AssignVectorX(x) == AssignVector("Vector.x=", <<x>>, VectorSetX(vec, x))
AssignVectorY(y) == AssignVector("Vector.y=", <<y>>, VectorSetY(vec, y))
AssignVectorZ(z) == AssignVector("Vector.z=", <<z>>, VectorSetZ(vec, z))
AssignVectorTheta(a) == AssignVector("Vector.theta=", AngleValue(a), VectorSetTheta(vec, a))
AssignVectorPhi(a) == AssignVector("Vector.phi=", AngleValue(a), VectorSetPhi(vec, a))
AssignVectorR(r) == AssignVector("Vector.r=", <<r>>, VectorSetR(vec, r))

\* arguments of the constructor in its two forms, lengths and angles assigned
CartesianInputs == {<<0, 0, 0>>, <<1000, 0, 0>>, <<1000, 1000, 0>>, <<0, -1000, 1000>>}
SphericalInputs == {<<0, 0, 1000>>, <<1571, 785, 2000>>}
LengthInputs == {2000}
AngleInputs == {NewAngle(1571, FALSE), NewAngle(45000, TRUE)}

\* new Vector(x, y, z), new Vector(theta, phi, r, true)
InitVector ==
    /\ GeomIdle
    /\ \/ \E c \in CartesianInputs : vec = NewVectorCartesian(c[1], c[2], c[3])
       \/ \E c \in SphericalInputs : vec = NewVectorSpherical(c[1], c[2], c[3])
    /\ ret = Ret("Vector", <<>>, "", <<>>, NoData)
    /\ AngleIdle
    /\ EllipseIdle
    /\ SimIdle
    /\ assigns = 0

NextVector ==
    \/ ReadVectorX
    \/ ReadVectorY
    \/ ReadVectorZ
    \/ ReadVectorTheta
    \/ ReadVectorPhi
    \/ ReadVectorR
    \/ \E x \in LengthInputs : AssignVectorX(x)
    \/ \E y \in LengthInputs : AssignVectorY(y)
    \/ \E z \in LengthInputs : AssignVectorZ(z)
    \/ \E a \in AngleInputs : AssignVectorTheta(a)
    \/ \E a \in AngleInputs : AssignVectorPhi(a)
    \/ \E r \in LengthInputs : AssignVectorR(r)

SpecVector == InitVector /\ [][NextVector]_vars

VectorGetters ==
    {"Vector.x", "Vector.y", "Vector.z", "Vector.theta", "Vector.phi", "Vector.r"}
CartesianSetters == {"Vector.x=", "Vector.y=", "Vector.z="}
SphericalSetters == {"Vector.theta=", "Vector.phi=", "Vector.r="}

\* C21: on a Vector made by its constructor in either form, whatever
\* components have been assigned through setters since, every getter returns
\* a value: none throws 'indeterminate vector component'
C21_GettersNeverThrow ==
    (assigns = 1 /\ ret.op \in VectorGetters) => (ret.threw = "" /\ ret.value # <<>>)

VectorFields == {"x", "y", "z", "theta", "phi", "r"}
CartesianFields == {"x", "y", "z"}
SphericalFields == {"theta", "phi", "r"}
\* the field a getter or a setter is named after
FieldOf(op) ==
    CASE op \in {"Vector.x", "Vector.x="} -> "x"
      [] op \in {"Vector.y", "Vector.y="} -> "y"
      [] op \in {"Vector.z", "Vector.z="} -> "z"
      [] op \in {"Vector.theta", "Vector.theta="} -> "theta"
      [] op \in {"Vector.phi", "Vector.phi="} -> "phi"
      [] op \in {"Vector.r", "Vector.r="} -> "r"
\* the field holds what it held: null as before, or the same number, or the
\* same Angle with every form it had cached still cached with the same value
FieldKept(p, q, f) ==
    /\ Len(p) = Len(q)
    /\ (p # <<>> /\ f \notin {"theta", "phi"}) => q = p
    /\ (p # <<>> /\ f \in {"theta", "phi"}) =>
          /\ p[1].rad # <<>> => q[1].rad = p[1].rad
          /\ p[1].deg # <<>> => q[1].deg = p[1].deg
OtherSystem(f) == IF f \in CartesianFields THEN SphericalFields ELSE CartesianFields
SameSystem(f) == IF f \in CartesianFields THEN CartesianFields ELSE SphericalFields

C22_SetterFrame ==
    LET f == FieldOf(ret'.op)
    IN  /\ vec'[f] # <<>>
        /\ ret'.arg = (IF f \in {"theta", "phi"} THEN AngleValue(vec'[f][1]) ELSE vec'[f])
        /\ \A g \in SameSystem(f) \ {f} : vec'[g] = vec[g]
        /\ \A g \in OtherSystem(f) : vec'[g] = <<>>
C22_GetterFrame ==
    LET f == FieldOf(ret'.op)
    IN  /\ \A g \in VectorFields \ {f} : FieldKept(vec[g], vec'[g], g)
        /\ vec[f] # <<>> => vec' = vec
        /\ ret'.threw # "" => vec' = vec
        /\ (vec[f] = <<>> /\ ret'.threw = "") => vec'[f] # <<>>

\* C22: a Vector setter stores its own component, leaves the other two
\* components of its coordinate system exactly as they were and nulls the
\* three of the other system; a getter of a cached component changes no
\* field and a getter that recomputes stores only its own component
C22_VectorFrame ==
    [][/\ ret'.op \in (CartesianSetters \cup SphericalSetters) => C22_SetterFrame
       /\ ret'.op \in VectorGetters => C22_GetterFrame]_vars
\* an x assigned on a vector whose y, z are cached, and an r recomputed from them
C22_Witness ==
    /\ ret.op = "Vector.r"
    /\ ret.threw = ""
    /\ assigns = 1
    /\ vec.x = <<2000>>
    /\ vec.y # <<>>
    /\ vec.theta = <<>>
    /\ vec.r # <<>>

(***************************************************************************)
(* Ellipse: coefficients a and b as assigned, and the cached semi-major    *)
(* and semi-minor axes, focal distance and eccentricity.  Lengths are in   *)
(* thousandths.  A value that a division or a square root produces is a    *)
(* pair: <<"number", n>>, <<"NaN", 0>> or <<"Infinity", 0>>.               *)
(***************************************************************************)
Number(n) == <<"number", n>>
NaN == <<"NaN", 0>>
Infinity == <<"Infinity", 0>>

\* new Ellipse(a, b, 0, 0)
NewEllipse(a, b) ==
    [a |-> a, b |-> b, sMaj |-> <<>>, sMin |-> <<>>, c |-> <<>>, e |-> <<>>]

\* set a, set b
EllipseSetA(el, a) == [el EXCEPT !.a = a, !.sMaj = <<>>, !.sMin = <<>>]
EllipseSetB(el, b) == [el EXCEPT !.b = b, !.sMaj = <<>>, !.sMin = <<>>]
\* set sMaj, set sMin: "cache validity is preserved"
EllipseSetSMaj(el, sMaj) == IF el.a > el.b THEN [el EXCEPT !.a = sMaj] ELSE [el EXCEPT !.b = sMaj]
EllipseSetSMin(el, sMin) == IF el.a > el.b THEN [el EXCEPT !.b = sMin] ELSE [el EXCEPT !.a = sMin]

\* the greater and the lesser of a and b as the getters choose them
Greater(a, b) == IF a > b THEN a ELSE b
Lesser(a, b) == IF a > b THEN b ELSE a
\* Math.sqrt(Math.pow(a, 2) - Math.pow(b, 2))
FocalDistance(a, b) ==
    IF (a * a) - (b * b) < 0 THEN NaN ELSE Number(MathSqrt((a * a) - (b * b)))
\* c / a on numbers as JavaScript divides them
Quotient(c, a) ==
    IF c[1] # "number" THEN NaN
    ELSE IF a # 0 THEN Number((c[2] * One) \div a)
    ELSE IF c[2] = 0 THEN NaN
    ELSE Infinity

\* get sMaj, get sMin
EllipseGetSMaj(el) ==
    IF el.sMaj = <<>>
    THEN [obj |-> [el EXCEPT !.sMaj = <<Greater(el.a, el.b)>>], value |-> <<Greater(el.a, el.b)>>]
    ELSE [obj |-> el, value |-> el.sMaj]
EllipseGetSMin(el) ==
    IF el.sMin = <<>>
    THEN [obj |-> [el EXCEPT !.sMin = <<Lesser(el.a, el.b)>>], value |-> <<Lesser(el.a, el.b)>>]
    ELSE [obj |-> el, value |-> el.sMin]
\* get c
EllipseGetC(el) ==
    IF el.c = <<>>
    THEN [obj |-> [el EXCEPT !.c = <<FocalDistance(el.a, el.b)>>],
          value |-> FocalDistance(el.a, el.b)]
    ELSE [obj |-> el, value |-> el.c[1]]
\* get e, through the c getter
EllipseGetE(el) ==
    IF el.e = <<>>
    THEN LET c == EllipseGetC(el)
         IN  [obj |-> [c.obj EXCEPT !.e = <<Quotient(c.value, el.a)>>],
              value |-> Quotient(c.value, el.a)]
    ELSE [obj |-> el, value |-> el.e[1]]

ReadEllipse(op, obj, value) ==
    /\ ell' = obj
    /\ ret' = Ret(op, <<>>, "", value, NoData)
    /\ UNCHANGED <<geomVars, ang, vec, assigns, planetM, crafts, craftM, activeCraft,
                   gameTime, lastRun>>
AssignEllipse(op, arg, obj) ==
    /\ assigns < MaxAssigns
    /\ assigns' = assigns + 1
    /\ ell' = obj
    /\ ret' = Ret(op, <<arg>>, "", <<>>, NoData)
    /\ UNCHANGED <<geomVars, ang, vec, planetM, crafts, craftM, activeCraft,
                   gameTime, lastRun>>

ReadEllipseA == ReadEllipse("Ellipse.a", ell, <<ell.a>>)
ReadEllipseB == ReadEllipse("Ellipse.b", ell, <<ell.b>>)
ReadEllipseSMaj == ReadEllipse("Ellipse.sMaj", EllipseGetSMaj(ell).obj, EllipseGetSMaj(ell).value)
ReadEllipseSMin == ReadEllipse("Ellipse.sMin", EllipseGetSMin(ell).obj, EllipseGetSMin(ell).value)
ReadEllipseC == ReadEllipse("Ellipse.c", EllipseGetC(ell).obj, EllipseGetC(ell).value)
ReadEllipseE == ReadEllipse("Ellipse.e", EllipseGetE(ell).obj, EllipseGetE(ell).value)
AssignEllipseA(a) == AssignEllipse("Ellipse.a=", a, EllipseSetA(ell, a))
AssignEllipseB(b) == AssignEllipse("Ellipse.b=", b, EllipseSetB(ell, b))
AssignEllipseSMaj(sMaj) == AssignEllipse("Ellipse.sMaj=", sMaj, EllipseSetSMaj(ell, sMaj))
AssignEllipseSMin(sMin) == AssignEllipse("Ellipse.sMin=", sMin, EllipseSetSMin(ell, sMin))

\* axis lengths given to the constructor and to the setters
EllipseInputs == {<<5000, 3000>>, <<3000, 5000>>, <<0, 0>>}
AxisInputs == {4000, 6000}

\* new Ellipse(a, b, 0, 0), its center a new Vector(0, 0, 0)
InitEllipse ==
    /\ GeomIdle
    /\ \E ab \in EllipseInputs : ell = NewEllipse(ab[1], ab[2])
    /\ vec = NewVectorCartesian(0, 0, 0)
    /\ ret = Ret("Ellipse", <<>>, "", <<>>, NoData)
    /\ AngleIdle
    /\ SimIdle
    /\ assigns = 0

NextEllipse ==
    \/ ReadEllipseA
    \/ ReadEllipseB
    \/ ReadEllipseSMaj
    \/ ReadEllipseSMin
    \/ ReadEllipseC
    \/ ReadEllipseE
    \/ \E a \in AxisInputs : AssignEllipseA(a)
    \/ \E b \in AxisInputs : AssignEllipseB(b)
    \/ \E sMaj \in AxisInputs : AssignEllipseSMaj(sMaj)
    \/ \E sMin \in AxisInputs : AssignEllipseSMin(sMin)

SpecEllipse == InitEllipse /\ [][NextEllipse]_vars

\* C23: whatever has been read and assigned on an Ellipse, the sMaj getter
\* returns the greater and the sMin getter the lesser of the current a and b
C23_AxesGreaterAndLesser ==
    /\ ret.op = "Ellipse.sMaj" => ret.value = <<Greater(ell.a, ell.b)>>
    /\ ret.op = "Ellipse.sMin" => ret.value = <<Lesser(ell.a, ell.b)>>

\* C29: whatever has been read and assigned on an Ellipse, the c getter
\* returns the focal distance and the e getter the eccentricity of the
\* current a and b, never one cached from earlier axis lengths
C29_FocalDistanceAndEccentricityCurrent ==
    /\ ret.op = "Ellipse.c" => ret.value = FocalDistance(ell.a, ell.b)
    /\ ret.op = "Ellipse.e" => ret.value = Quotient(FocalDistance(ell.a, ell.b), ell.a)

(***************************************************************************)
(* The simulator module: the planets index, the master crafts list, the    *)
(* active craft and the clock of sim().  Anomalies are in thousandths of a *)
(* radian.  Times are the module's millisecond values counted in units of  *)
(* 10^9 ms, so that the products the code forms stay within 32-bit         *)
(* integers; the expressions are the code's.                               *)
(***************************************************************************)
MaxNow == 3

\* TWO_PI (constants.ts)
TwoPiMilli == 2 * PiMilli
\* Date.UTC(2000, 0, 1, 12, 0, 0, 0) = 946728000000 ms
J2000 == 947
simSpeed == 1

\* the planets in the order of the index, their M0 (degrees * DEG2RAD) and
\* the position of the active planet
Planets ==
    <<"mercury", "venus", "earth", "mars", "jupiter", "saturn", "uranus", "neptune">>
PlanetM0 == <<3051, 875, 6259, 339, 349, 5533, 2483, 4472>>
activePlanet == 3
\* planets['earth'].n, in thousandths of a radian per unit of time
activePlanetN == 10911400
\* M: -1 of every entry of the index
PlanetMLoaded == [p \in 1..Len(Planets) |-> -One]

\* the crafts a caller has: two carry an orbit (M0, n, M), which sim() and
\* initSim() read; the third is a Spacecraft as the class declares it, with
\* no orbit property
Crafts == {"explorer1", "explorer2", "probe"}
OrbitCrafts == {"explorer1", "explorer2"}
CraftOrbit ==
    [c \in OrbitCrafts |->
        IF c = "explorer1" THEN [M0 |-> 1000, n |-> 2000] ELSE [M0 |-> 5000, n |-> 7000]]

\* the % operator of JavaScript: the remainder has the sign of the dividend
JsRem(a, m) == IF a >= 0 THEN a % m ELSE -((-a) % m)

\* addCraft that appends without looking for the craft
addCraftNoRemove(list, c) == Append(list, c)
\* the list left by addCraft(craft) (lines 301-317)
addCraft(list, c) ==
    LET ind == indexOf(list, c)
    IN  Append(IF ind >= 0 THEN SpliceRest(list, ind) ELSE list, c)

\* the guard of getCraft (line 291) and of removeCraft (line 335)
CraftIndexRejected(list, ind) == ind > Len(list) \/ ind < 0

\* throw new RangeError(`invalid master craft list index ${ind}`)
ThrowCraftRangeError(op, arg, ind) ==
    [Ret(op, arg, "RangeError", <<>>, NoData) EXCEPT !.message = <<ind>>]

\* crafts[ind]: undefined past the end
CraftAt(list, ind) == IF ind < Len(list) THEN <<list[ind + 1]>> ELSE <<>>

\* the first craft of the list without an orbit, 0 if every craft has one
FirstWithoutOrbit(list) ==
    IF \E k \in 1..Len(list) : list[k] \notin OrbitCrafts
    THEN CHOOSE k \in 1..Len(list) :
            list[k] \notin OrbitCrafts /\ \A j \in 1..(k - 1) : list[j] \in OrbitCrafts
    ELSE 0

\* the module as loaded
InitSimulator ==
    /\ GeomIdle
    /\ AngleIdle
    /\ VectorIdle
    /\ EllipseIdle
    /\ assigns = 0
    /\ planetM = PlanetMLoaded
    /\ crafts = <<>>
    /\ craftM = [c \in OrbitCrafts |-> 0]
    /\ activeCraft = <<>>
    /\ gameTime = 0
    /\ lastRun = 0
    /\ ret = Ret("sim.js", <<>>, "", <<>>, NoData)

\* sim() at the time now of performance.now()
Sim(now) ==
    LET dt == now - lastRun
        dgt == dt * simSpeed
    IN  /\ gameTime + dgt <= MaxNow
        /\ gameTime' = gameTime + dgt
        /\ IF activeCraft = <<>> \/ activeCraft \notin {<<c>> : c \in OrbitCrafts}
           THEN \* activeCraft.orbit.M cannot be read for the first console.info
                /\ ret' = Ret("sim", <<now>>, "TypeError", <<>>, NoData)
                /\ UNCHANGED <<planetM, craftM, lastRun>>
           ELSE /\ planetM' = [planetM EXCEPT ![activePlanet] = @ + (activePlanetN * dgt)]
                /\ craftM' = [craftM EXCEPT
                                ![activeCraft[1]] = @ + (CraftOrbit[activeCraft[1]].n * dgt)]
                /\ lastRun' = now
                /\ ret' = Ret("sim", <<now>>, "", <<>>, NoData)
        /\ UNCHANGED <<geomVars, ang, vec, ell, assigns, crafts, activeCraft>>

\* initSim()
InitSim ==
    LET k == FirstWithoutOrbit(crafts)
        reached == IF k = 0 THEN Range(crafts) ELSE {crafts[j] : j \in 1..(k - 1)}
    IN  /\ planetM' = [p \in 1..Len(Planets) |->
                            JsRem(PlanetM0[p] * (gameTime - J2000), TwoPiMilli)]
        /\ craftM' = [c \in OrbitCrafts |->
                        IF c \in reached THEN JsRem(CraftOrbit[c].M0 * gameTime, TwoPiMilli)
                        ELSE craftM[c]]
        /\ IF k # 0
           THEN \* craft.orbit is undefined: the loop stops at this craft
                /\ ret' = Ret("initSim", <<>>, "TypeError", <<>>, NoData)
                /\ UNCHANGED activeCraft
           ELSE /\ activeCraft' = CraftAt(crafts, 0)
                /\ ret' = Ret("initSim", <<>>,
                              IF crafts = <<>> THEN "TypeError" ELSE "", <<>>, NoData)
        /\ UNCHANGED <<geomVars, ang, vec, ell, assigns, crafts, gameTime, lastRun>>

\* getCraft(ind)
GetCraft(ind) ==
    /\ IF CraftIndexRejected(crafts, ind)
       THEN ret' = ThrowCraftRangeError("getCraft", <<ind>>, ind)
       ELSE ret' = Ret("getCraft", <<ind>>, "", CraftAt(crafts, ind), NoData)
    /\ UNCHANGED <<geomVars, kinVars>>

\* addCraft(craft)
AddCraft(c) ==
    /\ crafts' = addCraft(crafts, c)
    /\ activeCraft' = IF indexOf(crafts, c) < 0 /\ activeCraft = <<>> THEN <<c>>
                      ELSE activeCraft
    /\ ret' = Ret("addCraft", <<c>>, "", <<Len(crafts')>>, NoData)
    /\ UNCHANGED <<geomVars, ang, vec, ell, assigns, planetM, craftM, gameTime, lastRun>>

\* the body of removeCraft once ind is known (lines 335-344)
RemoveCraftAt(op, arg, ind) ==
    /\ IF CraftIndexRejected(crafts, ind)
       THEN /\ ret' = ThrowCraftRangeError(op, arg, ind)
            /\ UNCHANGED crafts
       ELSE /\ ret' = Ret(op, arg, "", SpliceRemoved(crafts, ind), NoData)
            /\ crafts' = SpliceRest(crafts, ind)
    /\ UNCHANGED <<geomVars, ang, vec, ell, assigns, planetM, craftM, activeCraft,
                   gameTime, lastRun>>

\* removeCraft(craft) with a Spacecraft reference, with a numeric index
RemoveCraftRef(c) == RemoveCraftAt("removeCraft(ref)", <<c>>, indexOf(crafts, c))
RemoveCraftIndex(ind) == RemoveCraftAt("removeCraft(index)", <<ind>>, ind)

NextSim ==
    \/ \E now \in lastRun..MaxNow : Sim(now)
    \/ InitSim
    \/ \E ind \in -1..(Len(crafts) + 1) : GetCraft(ind)
    \/ \E c \in Crafts : AddCraft(c)
    \/ \E c \in Crafts : RemoveCraftRef(c)
    \/ \E ind \in -1..(Len(crafts) + 1) : RemoveCraftIndex(ind)

SpecSim == InitSimulator /\ [][NextSim]_vars

InRange(M) == 0 <= M /\ M < TwoPiMilli
\* the current mean anomaly of every planet and of the active craft is in range
AnomaliesInRange ==
    /\ \A p \in 1..Len(Planets) : InRange(planetM[p])
    /\ \A c \in OrbitCrafts : activeCraft = <<c>> => InRange(craftM[c])

\* C24: once initSim has run, and then after every run of sim(), the
\* current mean anomaly M of every planet and of the active craft is at
\* least 0 and below 2*pi
C24_MeanAnomalyInRange ==
    /\ []((ret.op = "initSim" /\ ret.threw = "") => AnomaliesInRange)
    /\ [][(ret'.op = "sim" /\ AnomaliesInRange) => AnomaliesInRange']_vars

\* what every removal does: the craft returned is the one that was at the
\* index, it alone leaves the list and the others keep their order
RemovalTakesOne(ind) ==
    /\ ret'.value = CraftAt(crafts, ind)
    /\ crafts' = SubSeq(crafts, 1, ind) \o SubSeq(crafts, ind + 2, Len(crafts))
    /\ crafts' = Without(crafts, crafts[ind + 1])
C25_Removals ==
    /\ (ret'.op = "removeCraft(index)" /\ ret'.arg[1] \in 0..(Len(crafts) - 1)) =>
            /\ ret'.threw = ""
            /\ RemovalTakesOne(ret'.arg[1])
    /\ (ret'.op = "removeCraft(ref)" /\ ret'.arg[1] \in Range(crafts)) =>
            /\ ret'.threw = ""
            /\ ret'.value = ret'.arg
            /\ RemovalTakesOne(indexOf(crafts, ret'.arg[1]))
C25_AddReturnsCount ==
    ret'.op = "addCraft" =>
        /\ ret'.threw = ""
        /\ ret'.value = <<Len(crafts')>>
        /\ ret'.arg[1] \in Range(crafts')

\* C25 as stated: addCraft returns the new number of crafts; removeCraft(i)
\* for a valid index returns the craft getCraft(i) would return and
\* removeCraft(c) returns c, only that craft leaving the list and the rest
\* keeping their order; so the list left by adding a craft, with that craft
\* removed again, is the list before the addition
C25_AddThenRemoveRestores ==
    [][/\ C25_AddReturnsCount
       /\ C25_Removals
       /\ ret'.op = "addCraft" => Without(crafts', ret'.arg[1]) = crafts]_vars

\* C25 as the code has it: the same, except that the list before the addition
\* is restored only for a craft that was not in it; a craft already in the
\* list is moved to the end by addCraft, and removing it then leaves the
\* earlier list without that craft
C25_AddThenRemoveRestoresIfNew ==
    [][/\ C25_AddReturnsCount
       /\ C25_Removals
       /\ (ret'.op = "addCraft" /\ ret'.arg[1] \notin Range(crafts)) =>
                /\ crafts' = Append(crafts, ret'.arg[1])
                /\ Without(crafts', ret'.arg[1]) = crafts
       /\ (ret'.op = "addCraft" /\ ret'.arg[1] \in Range(crafts)) =>
                /\ crafts' = Append(Without(crafts, ret'.arg[1]), ret'.arg[1])
                /\ Len(crafts') = Len(crafts)]_vars
\* a craft removed by reference from between two others
C25_Witness ==
    /\ ret.op = "removeCraft(ref)"
    /\ ret.threw = ""
    /\ ret.value = <<"explorer2">>
    /\ crafts = <<"explorer1", "probe">>

\* C30: once defined, the active craft is in the crafts list in every
\* state that addCraft, removeCraft and initSim reach, and sim() advances the
\* orbit only of a craft of the list
C30_ActiveCraftInList ==
    /\ [](activeCraft # <<>> => activeCraft[1] \in Range(crafts))
    /\ [][ret'.op = "sim" =>
            \A c \in OrbitCrafts : craftM'[c] # craftM[c] => c \in Range(crafts)]_vars

\* C26: from the list of the Spacecraft constructor on, whatever addComponent
\* and removeComponent calls succeed or fail, no component is in the
\* component list twice
C26_NoDuplicateComponent ==
    \A i \in 1..Len(components), j \in 1..Len(components) :
        i # j => components[i] # components[j]
\* a component in the middle of the list was added again
C26_Witness ==
    /\ ret.op = "addComponent"
    /\ ret.arg = <<2>>
    /\ components = <<1, 3, 2>>

\* the edges of a triangle in the direction it goes round them
DirectedEdges(tri) == {<<tri[1], tri[2]>>, <<tri[2], tri[3]>>, <<tri[3], tri[1]>>}

\* C27: of the two triangles of each side face, the first goes along the
\* diagonal they share from slot s+1 to slot s+2 and the second from s+2 to
\* s+1; every side face has the triangles (s, s+1, s+2) and (s+2, s+1, s+3),
\* and the edge two neighbouring faces have in common in space is gone along
\* in opposite directions by their triangles, so all 2*edgeCount side
\* triangles are oriented one way around the cylinder
C27_SideWindingConsistent ==
    CylinderElementsRead =>
        LET d == ret.data
        IN  \A i \in 0..(edgeCount - 1) :
                LET s  == SideSlot(i)
                    sn == SideSlot((i + 1) % edgeCount)
                    t0 == Triangle(d, (2 * edgeCount) + (2 * i))
                    t1 == Triangle(d, (2 * edgeCount) + (2 * i) + 1)
                    n0 == Triangle(d, (2 * edgeCount) + (2 * ((i + 1) % edgeCount)))
                IN  /\ t0 = <<s, s + 1, s + 2>>
                    /\ t1 = <<s + 2, s + 1, s + 3>>
                    /\ <<s + 1, s + 2>> \in DirectedEdges(t0)
                    /\ <<s + 2, s + 1>> \in DirectedEdges(t1)
                    /\ <<s + 1, s + 2>> \notin DirectedEdges(t1)
                    /\ DirectedEdges(t0) \cap DirectedEdges(t1) = {}
                    /\ <<s + 3, s + 2>> \in DirectedEdges(t1)
                    /\ <<sn, sn + 1>> \in DirectedEdges(n0)
                    /\ Vertex(d, sn) = Vertex(d, s + 2)
                    /\ Vertex(d, sn + 1) = Vertex(d, s + 3)
\* the buffer of a cylinder wider at the bottom was read, with the side
\* triangles of its first and last face
C27_Witness ==
    /\ CylinderElementsRead
    /\ cyls[1].dz = 1
    /\ cyls[1].r0 = 4
    /\ cyls[1].r1 = 1
    /\ Triangle(ret.data, 2 * edgeCount) = <<26, 27, 28>>
    /\ Triangle(ret.data, (2 * edgeCount) + 1) = <<28, 27, 29>>
    /\ Triangle(ret.data, (4 * edgeCount) - 1) = <<72, 71, 73>>
====
